---------------------------- MODULE Spec2Model ----------------------------
(*
  A model of core/actionProxy/actionproxy.py: the ActionRunner (payload
  materialization, hooks, verification, child invocation and result parsing)
  and the Flask proxy routes /init, /run, /onstart, /onpause, /onfinish with
  the process-wide flags proxy.rejectReinit, proxy.initialized, proxy.started.
  environ is the set of names in os.environ; pending counts the /init calls
  that have passed the reinit guard and not yet read their body.

  Text is modelled as sequences of one-character strings over a small
  alphabet; the file at the runner's binary path is a record
  [exists, exec, content].  The runner is the one main() installs,
  ActionRunner(), so source = binary = '/action/exec'.
*)
EXTENDS Integers, Sequences, FiniteSets, TLC

VARIABLES rejectReinit, initialized, started, file, environ, pending, last

vars == <<rejectReinit, initialized, started, file, environ, pending, last>>

-----------------------------------------------------------------------------
(* Bounds of the model *)

\* most log lines a modelled child writes before its result line
MaxLogLines == 2

\* serialized argument lengths are drawn this far around the threshold
ArgLenSpread == 1

\* most /init calls that are past the reinit guard at one time
MaxPending == 1

-----------------------------------------------------------------------------
(* Text helpers: the str methods ActionRunner.run uses *)

\* the element of a one-element set: The({F(x) : x \in {e}}) is F(e) with e
\* evaluated once, whatever the number of places F uses x in
The(S) == CHOOSE x \in S : TRUE

NL == "\n"
QUOTE == "\""

\* the characters str.strip() removes, and json's WHITESPACE, in the alphabet
IsSpace(c) == c \in {" ", NL}

\* o.rfind('\n', 0, end): the highest 0-based index i < end with o[i] = '\n',
\* -1 when there is none
RFindNL(o, end) ==
    LET hits == {i \in 0..(end - 1) : i < Len(o) /\ o[i + 1] = NL}
    IN  IF hits = {} THEN -1
        ELSE CHOOSE i \in hits : \A j \in hits : j <= i

\* a faulty variant: the search runs over the whole text, its final newline included
LastNewLineWhole(o) == RFindNL(o, Len(o))

\* lastNewLine = o.rfind('\n', 0, len(o) - 1)
LastNewLine(o) == RFindNL(o, Len(o) - 1)

\* o[from:] for a 0-based from
SliceFrom(o, from) == SubSeq(o, from + 1, Len(o))

\* o[:to] for a 0-based to
SliceTo(o, to) == SubSeq(o, 1, to)

\* s.strip()
Strip(s) ==
    LET keep == {i \in 1..Len(s) : ~IsSpace(s[i])}
    IN  IF keep = {} THEN <<>>
        ELSE LET lo == CHOOSE i \in keep : \A j \in keep : i <= j
                 hi == CHOOSE i \in keep : \A j \in keep : j <= i
             IN  SubSeq(s, lo, hi)

-----------------------------------------------------------------------------
(* json.loads on the alphabet: numbers of the digit 1, strings without
   escapes, objects of at most one pair (the alphabet has no comma).  A value
   is kept in canonical form: its text without the insignificant whitespace. *)

\* the first index >= i that holds no whitespace (Len(s)+1 when none)
SkipWs(s, i) ==
    LET rest == {k \in i..Len(s) : ~IsSpace(s[k])}
    IN  IF rest = {} THEN Len(s) + 1
        ELSE CHOOSE k \in rest : \A j \in rest : k <= j

JsonFail == [ok |-> FALSE, kind |-> "none", canon |-> <<>>, end |-> 0]

\* py_scanstring from the opening quote at i: the text to the closing quote;
\* a control character inside the string is an error (strict mode)
ParseString(s, i) ==
    LET closes == {k \in (i + 1)..Len(s) : s[k] = QUOTE}
    IN  IF closes = {} THEN JsonFail
        ELSE LET j == CHOOSE k \in closes : \A m \in closes : k <= m
             IN  IF \E k \in (i + 1)..(j - 1) : s[k] = NL THEN JsonFail
                 ELSE [ok |-> TRUE, kind |-> "string",
                       canon |-> SubSeq(s, i, j), end |-> j + 1]

\* NUMBER_RE at i: the maximal run of digits
ParseNumber(s, i) ==
    LET stops == {k \in i..Len(s) : s[k] # "1"}
        e == IF stops = {} THEN Len(s) + 1
             ELSE CHOOSE k \in stops : \A m \in stops : k <= m
    IN  [ok |-> TRUE, kind |-> "number", canon |-> SubSeq(s, i, e - 1), end |-> e]

\* JSONObject once the pair's value v is parsed: the closing brace
ObjectClose(s, key, v, z) ==
    IF z > Len(s) THEN JsonFail
    ELSE IF s[z] # "}" THEN JsonFail
    ELSE [ok |-> TRUE, kind |-> "object",
          canon |-> <<"{">> \o key.canon \o <<":">> \o v.canon \o <<"}">>,
          end |-> z + 1]

\* JSONObject once the key is read: the colon at c (after whitespace), the
\* value at a (after whitespace) parsed by the scanner pv
ObjectValue(s, key, c, a, pv) ==
    IF c > Len(s) \/ a > Len(s) THEN JsonFail
    ELSE IF s[c] # ":" THEN JsonFail
    ELSE The({IF ~v.ok THEN JsonFail
              ELSE The({ObjectClose(s, key, v, z) : z \in {SkipWs(s, v.end)}})
                : v \in {pv[a]}})

\* JSONObject at the first character k after the opening brace and whitespace
ObjectBody(s, k, pv) ==
    IF k > Len(s) THEN JsonFail
    ELSE IF s[k] = "}"
    THEN [ok |-> TRUE, kind |-> "object", canon |-> <<"{", "}">>, end |-> k + 1]
    ELSE IF s[k] # QUOTE THEN JsonFail
    ELSE The({IF ~key.ok THEN JsonFail
              ELSE The({ObjectValue(s, key, c, SkipWs(s, c + 1), pv)
                          : c \in {SkipWs(s, key.end)}})
                : key \in {ParseString(s, k)}})

\* JSONObject after the opening brace at i
ParseObject(s, i, pv) == The({ObjectBody(s, k, pv) : k \in {SkipWs(s, i + 1)}})

\* the end of json.loads: nothing but whitespace may follow the value
WholeText(s, v) ==
    IF v.ok /\ SkipWs(s, v.end) = Len(s) + 1 THEN v ELSE JsonFail

\* json.loads(s): scan_once at the first character that is no whitespace
JsonLoads(s) ==
    LET ParseValue[i \in 1..Len(s)] ==
            IF s[i] = QUOTE THEN ParseString(s, i)
            ELSE IF s[i] = "{" THEN ParseObject(s, i, ParseValue)
            ELSE IF s[i] = "1" THEN ParseNumber(s, i)
            ELSE JsonFail
    IN  The({IF first > Len(s) THEN JsonFail
             ELSE The({WholeText(s, v) : v \in {ParseValue[first]}})
               : first \in {SkipWs(s, 1)}})

-----------------------------------------------------------------------------
(* The file at the runner's binary path, and the payloads of /init *)

\* contents a payload can carry
Codes == {"c1", "c2"}

NoFile == [exists |-> FALSE, exec |-> FALSE, content |-> "absent"]

\* what the container image can hold at the binary path when the proxy starts:
\* nothing, or a file (the image's stub) that is or is not executable
FileStates ==
    {NoFile} \cup [exists : {TRUE}, exec : BOOLEAN, content : {"stub"} \cup Codes]

\* a faulty variant: existence alone is taken for runnable
VerifyExistsOnly(f) == f.exists

\* ActionRunner.verify: os.path.isfile(binary) and os.access(binary, X_OK)
Verify(f) == f.exists /\ f.exec

\* open(path, 'w') and write: the file is created without the execute bit, or
\* truncated and rewritten with the mode it had
WriteFile(f, code) ==
    [exists |-> TRUE, exec |-> f.exists /\ f.exec, content |-> code]

\* the 'value' of an /init message: no code (absent or null), inline source,
\* a base64 zip that holds the file at the binary path, or a blob that is not
\* base64 of a zip archive
Payloads ==
    {[kind |-> "none", code |-> "absent"]}
        \cup [kind : {"string", "zip", "badzip"}, code : Codes]

\* the file once open(path, 'w') succeeded and the write failed: created or
\* truncated, empty, with the mode it had
Truncated(f) == WriteFile(f, "")

\* ActionRunner.initCodeFromString: under io = "fail" the write fails once
\* the file is open; the error propagates as an exception
InitCodeFromString(f, p, io) ==
    IF io = "fail" THEN [raised |-> TRUE, ok |-> FALSE, file |-> Truncated(f)]
    ELSE [raised |-> FALSE, ok |-> TRUE, file |-> WriteFile(f, p.code)]

\* ActionRunner.initCodeFromZip: every exception is caught, printed and
\* turned into False.  A blob that is no archive fails before anything is
\* written; under io = "fail" the extraction fails in the write, once the
\* target is open.
InitCodeFromZip(f, p, io) ==
    IF p.kind = "badzip"
    THEN [raised |-> FALSE, ok |-> FALSE, file |-> f]
    ELSE IF io = "fail"
    THEN [raised |-> FALSE, ok |-> FALSE, file |-> Truncated(f)]
    ELSE [raised |-> FALSE, ok |-> TRUE, file |-> WriteFile(f, p.code)]

\* prep() inside ActionRunner.init
Prep(f, p, io) ==
    IF p.kind = "none" THEN [raised |-> FALSE, ok |-> FALSE, file |-> f]
    ELSE IF p.kind = "string" THEN InitCodeFromString(f, p, io)
    ELSE InitCodeFromZip(f, p, io)

\* what an (overridable) epilogue hook can do: return None as the default
\* does, return False, or raise
EpilogueOutcomes == {"none", "false", "raise"}

\* what an (overridable) build hook can do: return None as the default does,
\* produce the executable and return None, return False, or raise
BuildOutcomes == {"none", "built", "false", "raise"}

\* the effect of a build hook on the file at the binary path
Build(f, bld) ==
    IF bld = "built" THEN [exists |-> TRUE, exec |-> TRUE, content |-> f.content]
    ELSE f

\* the steps an init ran, in order
StepsOf(materialized, epilogue, build, verify) ==
    (IF materialized THEN <<"materialize">> ELSE <<>>)
        \o (IF epilogue THEN <<"epilogue">> ELSE <<>>)
        \o (IF build THEN <<"build">> ELSE <<>>)
        \o (IF verify THEN <<"verify">> ELSE <<>>)

\* a faulty variant: the binary is verified whatever the hooks did
AfterPrepVerifiesAnyway(m, mat, epi, bld) ==
    IF m.raised
    THEN [raised |-> TRUE, status |-> FALSE, file |-> m.file,
          mat |-> "raised", steps |-> StepsOf(mat, FALSE, FALSE, FALSE)]
    ELSE IF ~m.ok
    THEN [raised |-> FALSE, status |-> Verify(m.file), file |-> m.file,
          mat |-> IF mat THEN "failed" ELSE "none",
          steps |-> StepsOf(mat, FALSE, FALSE, TRUE)]
    ELSE [raised |-> FALSE, status |-> Verify(Build(m.file, bld)),
          file |-> Build(m.file, bld), mat |-> "ok",
          steps |-> StepsOf(mat, TRUE, epi \notin {"false", "raise"}, TRUE)]

\* ActionRunner.init(message) once prep() returned m (or raised), for a
\* payload that held code (mat) or none
AfterPrep(m, mat, epi, bld) ==
    IF m.raised
    THEN [raised |-> TRUE, status |-> FALSE, file |-> m.file,
          mat |-> "raised", steps |-> StepsOf(mat, FALSE, FALSE, FALSE)]
    ELSE IF ~m.ok
    THEN [raised |-> FALSE, status |-> Verify(m.file), file |-> m.file,
          mat |-> IF mat THEN "failed" ELSE "none",
          steps |-> StepsOf(mat, FALSE, FALSE, TRUE)]
    ELSE IF epi \in {"false", "raise"}
    THEN [raised |-> FALSE, status |-> FALSE, file |-> m.file,
          mat |-> "ok", steps |-> StepsOf(mat, TRUE, FALSE, FALSE)]
    ELSE IF bld \in {"false", "raise"}
    THEN [raised |-> FALSE, status |-> FALSE, file |-> m.file,
          mat |-> "ok", steps |-> StepsOf(mat, TRUE, TRUE, FALSE)]
    ELSE [raised |-> FALSE, status |-> Verify(Build(m.file, bld)),
          file |-> Build(m.file, bld),
          mat |-> "ok", steps |-> StepsOf(mat, TRUE, TRUE, TRUE)]

\* ActionRunner.init(message): whether it raised, the status it returned, the
\* file it left, how the materialization went and the steps it ran
RunnerInit(f, p, io, epi, bld) ==
    The({AfterPrep(m, p.kind # "none", epi, bld) : m \in {Prep(f, p, io)}})

-----------------------------------------------------------------------------
(* ActionRunner.env: the environment of the child *)

\* the names os.environ holds when the proxy starts
InheritedEnv == {<<"P", "A", "T", "H">>}

\* the key of the arguments in a /run body
ValueKey == <<"v", "a", "l", "u", "e">>

\* the keys a modelled /run body can hold
MessageKeys == {<<"a">>, <<"B">>, ValueKey}

\* str.upper() on the letters of the modelled keys
UpperOf ==
    ("a" :> "A") @@ ("v" :> "V") @@ ("l" :> "L") @@ ("u" :> "U") @@ ("e" :> "E")

Upper(k) ==
    [i \in 1..Len(k) |-> IF k[i] \in DOMAIN UpperOf THEN UpperOf[k[i]] ELSE k[i]]

\* '__OW_%s' % k.upper()
EnvName(k) == <<"_", "_", "O", "W", "_">> \o Upper(k)

\* ActionRunner.env(message) for the keys of message, os.environ holding the
\* names env: 'env = os.environ' is the process's own mapping, no copy, and
\* every key but 'value' is written into it.  The names are modelled, every
\* value being the same string.
Env(env, message) == env \cup {EnvName(k) : k \in message \ {ValueKey}}

-----------------------------------------------------------------------------
(* ActionRunner.run: the invocation shape and the parse of the child's output *)

\* the literal of 'if len(input) > 131071'
MAX_ARG_STRLEN == 131071

\* lengths of json.dumps(args): "{}" and the lengths around the threshold
ArgLens ==
    {Len(<<"{", "}">>)}
        \cup ((MAX_ARG_STRLEN - ArgLenSpread)..(MAX_ARG_STRLEN + ArgLenSpread))

\* a faulty variant: the threshold itself already goes to stdin only
StdinOnlyFromThreshold(len) == len >= MAX_ARG_STRLEN

\* len(input) > 131071: Popen([binary]) without the argument
StdinOnly(len) == len > MAX_ARG_STRLEN

\* the argv of the Popen call
ArgvMode(len) == IF StdinOnly(len) THEN "stdin" ELSE "dual"

\* what can go wrong around the child: nothing, os.environ refusing a
\* metadata value, Popen/communicate raising, stdout or stderr that is not
\* UTF-8
Faults == {"none", "env", "spawn", "decode"}

\* str(e) of the exception Popen or communicate raised, in the alphabet
ExceptionText == <<"a", " ", "1">>

\* a faulty variant: any JSON value is returned as the result, object or not
ResultOfAnyJson(lastLine, logs, j) ==
    IF j.ok
    THEN [code |-> 200, kind |-> "result", result |-> j.canon,
          error |-> <<>>, logs |-> logs]
    ELSE [code |-> 502, kind |-> "badresult", result |-> <<>>,
          error |-> lastLine, logs |-> logs \o lastLine \o <<NL>>]

\* lines 192-199: the candidate line parsed; _error writes the line to stdout
ResultOf(lastLine, logs, j) ==
    IF j.ok /\ j.kind = "object"
    THEN [code |-> 200, kind |-> "result", result |-> j.canon,
          error |-> <<>>, logs |-> logs]
    ELSE [code |-> 502, kind |-> "badresult", result |-> <<>>,
          error |-> lastLine, logs |-> logs \o lastLine \o <<NL>>]

\* lines 180-187: the candidate line and the text forwarded to stdout
SplitOutput(o, lastNewLine) ==
    IF lastNewLine # -1
    THEN [lastLine |-> Strip(SliceFrom(o, lastNewLine + 1)),
          logs |-> SliceTo(o, lastNewLine + 1)]
    ELSE [lastLine |-> Strip(o), logs |-> <<>>]

\* lines 178-199 on the decoded stdout o: the (status, body) returned and
\* the text written to stdout
ParseOutput(o) ==
    The({ResultOf(p.lastLine, p.logs, JsonLoads(p.lastLine))
           : p \in {SplitOutput(o, LastNewLine(o))}})

\* ActionRunner.run(args, env) for a serialized length, a fault and the
\* child's stdout o and stderr e: raised is an exception leaving run, kind
\* "exception" is _error(e) holding the exception object itself, errText is
\* what lines 189-190 write to stderr.  A decoding fault (lines 173-176)
\* raises before anything is written.
RunnerRun(len, fault, o, e) ==
    IF fault = "spawn"
    THEN [raised |-> FALSE, code |-> 502, kind |-> "exception", result |-> <<>>,
          error |-> <<>>, logs |-> ExceptionText \o <<NL>>, errText |-> <<>>,
          argv |-> ArgvMode(len), spawned |-> FALSE]
    ELSE IF fault = "decode"
    THEN [raised |-> TRUE, code |-> 0, kind |-> "raised", result |-> <<>>,
          error |-> <<>>, logs |-> <<>>, errText |-> <<>>,
          argv |-> ArgvMode(len), spawned |-> TRUE]
    ELSE ParseOutput(o) @@
         [raised |-> FALSE, errText |-> e, argv |-> ArgvMode(len),
          spawned |-> TRUE]

-----------------------------------------------------------------------------
(* Child outputs *)

\* json.dumps' rendering of a canonical text: a space after each colon that
\* stands outside a string
RECURSIVE DumpsFrom(_, _, _)
DumpsFrom(c, i, inString) ==
    IF i > Len(c) THEN <<>>
    ELSE IF c[i] = QUOTE THEN <<c[i]>> \o DumpsFrom(c, i + 1, ~inString)
    ELSE IF c[i] = ":" /\ ~inString THEN <<":", " ">> \o DumpsFrom(c, i + 1, inString)
    ELSE <<c[i]>> \o DumpsFrom(c, i + 1, inString)

Dumps(c) == DumpsFrom(c, 1, FALSE)

\* JSON objects a child returns, in canonical form
JsonObjects ==
    { <<"{", "}">>,
      <<"{", QUOTE, "a", QUOTE, ":", "1", "}">>,
      <<"{", QUOTE, ":", QUOTE, ":", QUOTE, "a", " ", QUOTE, "}">>,
      <<"{", QUOTE, "a", QUOTE, ":", "{", QUOTE, QUOTE, ":", "1", "1", "}", "}">> }

\* the ways a child writes an object on one line
Renderings(obj) ==
    {obj, Dumps(obj), <<" ">> \o Dumps(obj) \o <<" ">>}

\* final lines that are JSON but no object, or no JSON at all
OtherFinalLines ==
    { <<"1", "1">>,
      <<QUOTE, "a", QUOTE>>,
      <<"a">>,
      <<"{">>,
      <<"{", QUOTE, "a", QUOTE, "}">>,
      <<"{", "}", " ", "{", "}">>,
      <<>> }

\* log lines, without their newline: an empty line, and a line that looks
\* like a result itself and ends in a space
LogLines == { <<>>, <<"{", "}", " ">> }

\* n log lines, each ended by its newline
RECURSIVE LogTexts(_)
LogTexts(n) ==
    IF n = 0 THEN {<<>>}
    ELSE {l \o <<NL>> \o t : l \in LogLines, t \in LogTexts(n - 1)}

AllLogTexts == UNION {LogTexts(n) : n \in 0..MaxLogLines}

FinalLines == (UNION {Renderings(obj) : obj \in JsonObjects}) \cup OtherFinalLines

\* every modelled stdout: log lines, a final line, a newline after it or not
ChildOutputs ==
    {t \o f \o nl : t \in AllLogTexts, f \in FinalLines, nl \in {<<>>, <<NL>>}}

\* what a child writes to stderr: nothing, a line, or text with no newline
\* at its end
ChildErrs == {<<>>, <<"a", NL>>, <<"a">>}

\* the outputs the lifecycle specification draws from
FewChildOutputs ==
    { <<"{", "}">>,
      <<"a", NL, "{", QUOTE, "a", QUOTE, ":", "1", "}", NL>>,
      <<"a", NL, "1", NL>>,
      <<>> }

-----------------------------------------------------------------------------
(* The proxy: logging, responses and the routes *)

LOG_SENTINEL == "XXX_THE_END_OF_A_WHISK_ACTIVATION_XXX"

\* stdout and stderr as the lines written so far; tail is the text on stderr
\* after its last newline, a line not yet ended
NoStreams == [out |-> <<>>, err |-> <<>>, tail |-> ""]

\* log(msg): the line goes to stdout and to stderr
Log(s, msg) ==
    [out |-> Append(s.out, msg), err |-> Append(s.err, s.tail \o msg),
     tail |-> ""]

\* print(msg): the line goes to stdout alone
WriteOut(s, msg) == [s EXCEPT !.out = Append(s.out, msg)]

\* sys.stderr.write(msg + '\n')
WriteErr(s, msg) ==
    [s EXCEPT !.err = Append(s.err, s.tail \o msg), !.tail = ""]

\* sys.stderr.write(e) for a text e: each newline ends a line, and what
\* follows the last newline stays an unfinished line
RECURSIVE WriteErrText(_, _)
WriteErrText(s, text) ==
    IF text = <<>> THEN s
    ELSE WriteErrText(IF Head(text) = NL
                      THEN [s EXCEPT !.err = Append(s.err, s.tail), !.tail = ""]
                      ELSE [s EXCEPT !.tail = s.tail \o Head(text)],
                      Tail(text))

\* a faulty variant: the response is returned without the sentinel
CompleteSilent(s) == s

\* complete(response): the sentinel is logged, the response returned
Complete(s) == Log(s, LOG_SENTINEL)

\* the flags and the file as a call finds them
Snapshot(ini, sta, f) == [initialized |-> ini, started |-> sta, file |-> f]

\* a response with what the call did, as the caller and the log reader see it
Response(op, code, kind, s, pre) ==
    [op |-> op, code |-> code, kind |-> kind, out |-> s.out, err |-> s.err,
     spawned |-> FALSE, argv |-> "none", inputLen |-> 0, childOut |-> <<>>,
     childErr |-> <<>>,
     logs |-> <<>>, result |-> <<>>, error |-> <<>>, steps |-> <<>>,
     shape |-> "none", payload |-> "none", mat |-> "none",
     epi |-> "none", bld |-> "none", meta |-> {}, env |-> {},
     resumed |-> FALSE, pre |-> pre]

\* error(msg, code): jsonify({'error': msg}) through complete()
Error(op, code, kind, s, pre) == Response(op, code, kind, Complete(s), pre)

\* the JSON bodies a route can receive: a dictionary whose 'value' is a
\* dictionary, nothing (or a falsy body), a body that is no dictionary, a
\* dictionary whose 'value' is none
Shapes == {"ok", "empty", "nondict", "badvalue"}

\* a faulty variant: the guard never refuses
ReinitRefusedNever(rej, ini) == FALSE

\* proxy.rejectReinit is True and proxy.initialized is True
ReinitRefused(rej, ini) == rej /\ ini

\* a faulty variant: a successful init leaves started as it was
AfterInitKeepsStarted(status, ini, sta) ==
    [initialized |-> status \/ ini, started |-> sta]

\* a faulty variant: started is reset before the status is looked at
AfterInitAlwaysResets(status, ini, sta) ==
    [initialized |-> status \/ ini, started |-> FALSE]

\* lines 258-263: the flags after runner.init returned status
AfterInit(status, ini, sta) ==
    IF status THEN [initialized |-> TRUE, started |-> FALSE]
    ELSE [initialized |-> ini, started |-> sta]

\* the lines ActionRunner.init writes: the logged message, 'no prep' for a
\* payload without code, the 'err' line initCodeFromZip prints to stdout when
\* it fails, and the logged result of verify
RunnerInitLines(s, p, r) ==
    LET a == Log(s, "message")
        b == IF p.kind = "none" THEN Log(a, "no prep")
             ELSE IF r.mat = "failed" THEN WriteOut(a, "err")
             ELSE a
    IN  IF r.steps # <<>> /\ r.steps[Len(r.steps)] = "verify"
        THEN Log(b, "verified") ELSE b

\* the requests of /init: the body's shape and, for a well-formed one, the
\* payload, whether the write to the open file fails, and what the hooks do.
\* What a hook does is part of the request only where the hooks are called,
\* after a materialization that succeeded.
InitRequests ==
    [shape : {"ok"}, payload : {p \in Payloads : p.kind \in {"string", "zip"}},
     io : {"ok"}, epi : EpilogueOutcomes, bld : BuildOutcomes]
        \cup [shape : {"ok"}, payload : Payloads, io : {"ok", "fail"},
              epi : {"none"}, bld : {"none"}]
        \cup [shape : Shapes \ {"ok"}, payload : {[kind |-> "none", code |-> "absent"]},
              io : {"ok"}, epi : {"none"}, bld : {"none"}]

\* lines 252-263: the flags, the file and the response once runner.init
\* returned r (or raised)
InitResponse(req, r, ini, sta, pre) ==
    LET s == RunnerInitLines(Log(NoStreams, "message"), req.payload, r)
        flags == AfterInit(r.status, ini, sta)
    IN  IF r.raised
        THEN [initialized |-> ini, started |-> sta, file |-> r.file,
              resp |-> [Error("init", 502, "exception", s, pre)
                           EXCEPT !.steps = r.steps, !.mat = r.mat]]
        ELSE [initialized |-> flags.initialized, started |-> flags.started,
              file |-> r.file,
              resp |-> [(IF r.status
                         THEN Response("init", 200, "ok", s, pre)
                         ELSE Error("init", 502, "nobinary", s, pre))
                           EXCEPT !.steps = r.steps, !.mat = r.mat]]

\* lines 243-263: init() once the guard let the call through, from the
\* read of the body on
InitAfterGuard(ini, sta, f, req) ==
    IF req.shape \in {"nondict", "badvalue"}
    THEN [initialized |-> ini, started |-> sta, file |-> f,
          resp |-> Response("init", 404, "abort", Log(NoStreams, "message"),
                            Snapshot(ini, sta, f))]
    ELSE The({InitResponse(req, r, ini, sta, Snapshot(ini, sta, f))
                : r \in {RunnerInit(f, req.payload, req.io, req.epi, req.bld)}})

\* init() from the guard on
InitOutcome(rej, ini, sta, f, req) ==
    IF ReinitRefused(rej, ini)
    THEN [initialized |-> ini, started |-> sta, file |-> f,
          resp |-> Error("init", 403, "reinit", WriteErr(NoStreams, "reinit"),
                         Snapshot(ini, sta, f))]
    ELSE InitAfterGuard(ini, sta, f, req)

\* the response noting the request: its shape, the kind of its payload and
\* what its hooks do
Noting(r, req) ==
    [r EXCEPT !.resp.shape = req.shape, !.resp.payload = req.payload.kind,
              !.resp.epi = req.epi, !.resp.bld = req.bld]

\* init(): the flags, the file and the response after the call
RouteInit(rej, ini, sta, f, req) ==
    The({Noting(r, req) : r \in {InitOutcome(rej, ini, sta, f, req)}})

\* init() resumed after the guard let it through: the flags and the file are
\* the ones the call finds when it resumes
RouteInitResumed(ini, sta, f, req) ==
    The({Noting(r, req) : r \in {InitAfterGuard(ini, sta, f, req)}})

\* the positional parameters ActionRunner.stop/pause/start declare after self
HookParams == [stop |-> {"args", "env"}, pause |-> {"args", "env"},
               start |-> {"args", "env"}]

\* the arguments the routes pass: runner.stop(), runner.pause(), runner.start()
HookArgs == [stop |-> {}, pause |-> {}, start |-> {}]

\* a call binds when it passes as many arguments as the method declares;
\* otherwise Python raises TypeError
HookCallBinds(h) == Cardinality(HookArgs[h]) = Cardinality(HookParams[h])

\* a faulty variant: a second start is let through
StartRefusedNever(sta) == FALSE

\* proxy.started is True
StartRefused(sta) == sta

\* start(): started after the call, and the response; an exception leaving
\* the view is Flask's 500 response
RouteStart(ini, sta, f) ==
    LET pre == Snapshot(ini, sta, f)
    IN  IF StartRefused(sta)
        THEN [started |-> sta,
              resp |-> Error("start", 500, "started", WriteErr(NoStreams, "started"), pre)]
        ELSE IF HookCallBinds("start")
        THEN [started |-> TRUE,
              resp |-> Response("start", 200, "ok", Log(NoStreams, "onStart"), pre)]
        ELSE [started |-> TRUE,
              resp |-> Response("start", 500, "unhandled", Log(NoStreams, "onStart"), pre)]

\* pause() and finish(): the response
RouteNotify(op, h, line, ini, sta, f) ==
    IF HookCallBinds(h)
    THEN Response(op, 200, "ok", Log(NoStreams, line), Snapshot(ini, sta, f))
    ELSE Response(op, 500, "unhandled", Log(NoStreams, line), Snapshot(ini, sta, f))

\* the key sets of the bodies the lifecycle specification draws from: the
\* arguments and one metadata key
FewMetas == {{<<"a">>, ValueKey}}

\* the keys of 'message or {}': an empty body has none
MessageOf(req) == IF req.shape = "ok" THEN req.meta ELSE {}

\* the keys of the body that ActionRunner.env writes: all but 'value'
MetaOf(req) == MessageOf(req) \ {ValueKey}

\* under the fault "env" os.environ refuses the value of one item of the
\* body; the loop of ActionRunner.env has written the items ahead of it.
\* The sets of keys that can lie ahead of a refused item in a body with the
\* keys m
Befores(m) == (SUBSET (m \ {ValueKey})) \ {m \ {ValueKey}}

\* the requests of /run with a body of one of the key sets metas: with no
\* fault, any of the lengths and outputs with a child silent on stderr, and
\* the shortest arguments with any of the outputs on stdout and on stderr;
\* with Popen failing or the child writing bytes that are no UTF-8, where
\* the length and the output do not matter, the shortest arguments; with
\* os.environ refusing the value of an item, the keys written before it
RunsWith(lens, outs, metas) ==
    [shape : {"ok", "empty"}, len : lens, fault : {"none"}, o : outs,
     e : {<<>>}, meta : metas, before : {{}}]
      \cup [shape : {"ok", "empty"}, len : {Len(<<"{", "}">>)}, fault : {"none"},
            o : outs, e : ChildErrs, meta : metas, before : {{}}]
      \cup [shape : {"ok", "empty"}, len : {Len(<<"{", "}">>)},
            fault : Faults \ {"none", "env"}, o : {<<>>}, e : {<<>>},
            meta : metas, before : {{}}]
      \cup UNION {[shape : {"ok"}, len : {Len(<<"{", "}">>)}, fault : {"env"},
                   o : {<<>>}, e : {<<>>}, meta : {m}, before : Befores(m)]
                    : m \in metas}

\* the requests of /run whose body is a dictionary (or empty): the length of
\* the serialized arguments, a fault, and what the child writes
WellFormedRuns(outs) == RunsWith(ArgLens, outs, FewMetas)

\* the requests of /run whose body, or whose 'value', is no dictionary
MalformedRuns ==
    [shape : {"nondict", "badvalue"}, len : {Len(<<"{", "}">>)},
     fault : {"none"}, o : {<<>>}, e : {<<>>}, meta : {{}}, before : {{}}]

\* the requests of /run with no fault and the shortest arguments, the child
\* writing any of the modelled outputs
OutputRuns ==
    [shape : {"ok"}, len : {Len(<<"{", "}">>)}, fault : {"none"}, o : ChildOutputs,
     e : {<<>>}, meta : {{}}, before : {{}}]

\* the requests of /run with the shortest arguments and any set of keys in
\* the body
EnvRuns == RunsWith({Len(<<"{", "}">>)}, FewChildOutputs, SUBSET MessageKeys)

\* a faulty variant: an exception leaving runner.run leaves the view too
RunResponseUnhandled(req, r, pre) ==
    [(IF r.raised \/ r.kind = "exception"
      THEN Response("run", 500, "unhandled", WriteErrText(NoStreams, r.errText), pre)
      ELSE [Response("run", r.code, r.kind,
                     Complete(WriteErrText(NoStreams, r.errText)), pre)
               EXCEPT !.result = r.result, !.error = r.error])
        EXCEPT !.spawned = r.spawned, !.argv = r.argv, !.inputLen = req.len,
               !.childOut = IF r.spawned THEN req.o ELSE <<>>,
               !.childErr = r.errText,
               !.logs = r.logs]

\* the response of run() once runner.run returned r (or raised): jsonify
\* cannot serialize the exception object _error(e) holds, which is a fault
\* of the view like any other.  The sentinel follows what runner.run wrote
\* to stderr; the response notes that text as childErr.
RunResponse(req, r, pre) ==
    [(IF r.raised \/ r.kind = "exception"
      THEN Error("run", 500, "internal", WriteErrText(NoStreams, r.errText), pre)
      ELSE [Response("run", r.code, r.kind,
                     Complete(WriteErrText(NoStreams, r.errText)), pre)
               EXCEPT !.result = r.result, !.error = r.error])
        EXCEPT !.spawned = r.spawned, !.argv = r.argv, !.inputLen = req.len,
               !.childOut = IF r.spawned THEN req.o ELSE <<>>,
               !.childErr = r.errText,
               !.logs = r.logs]

\* a faulty variant: /run also wants the proxy initialized
RunOutcomeWhenInitialized(ini, sta, f, env, req) ==
    IF req.shape \in {"nondict", "badvalue"}
    THEN [environ |-> env,
          resp |-> Error("run", 404, "notdict", NoStreams, Snapshot(ini, sta, f))]
    ELSE IF ~(ini /\ Verify(f))
    THEN [environ |-> env,
          resp |-> Error("run", 502, "nobinary", NoStreams, Snapshot(ini, sta, f))]
    ELSE IF req.fault = "env" /\ MetaOf(req) # {}
    THEN [environ |-> Env(env, req.before),
          resp |-> Error("run", 500, "internal", NoStreams, Snapshot(ini, sta, f))]
    ELSE The({[environ |-> e,
               resp |-> The({[RunResponse(req, r, Snapshot(ini, sta, f))
                                EXCEPT !.env = e]
                               : r \in {RunnerRun(req.len, req.fault, req.o, req.e)}})]
                : e \in {Env(env, MessageOf(req))}})

\* run() from the parse of the body on, os.environ holding the names env:
\* os.environ after the call and the response, which notes the environment
\* handed to runner.run.  Under the fault "env" runner.env raises at the
\* refused item and the names written before it stay in os.environ; a body
\* with no item to write cannot meet that fault.
RunOutcome(ini, sta, f, env, req) ==
    IF req.shape \in {"nondict", "badvalue"}
    THEN [environ |-> env,
          resp |-> Error("run", 404, "notdict", NoStreams, Snapshot(ini, sta, f))]
    ELSE IF ~Verify(f)
    THEN [environ |-> env,
          resp |-> Error("run", 502, "nobinary", NoStreams, Snapshot(ini, sta, f))]
    ELSE IF req.fault = "env" /\ MetaOf(req) # {}
    THEN [environ |-> Env(env, req.before),
          resp |-> Error("run", 500, "internal", NoStreams, Snapshot(ini, sta, f))]
    ELSE The({[environ |-> e,
               resp |-> The({[RunResponse(req, r, Snapshot(ini, sta, f))
                                EXCEPT !.env = e]
                               : r \in {RunnerRun(req.len, req.fault, req.o, req.e)}})]
                : e \in {Env(env, MessageOf(req))}})

\* run(): os.environ after the call and the response, noting the request's
\* shape and the keys of its body
RouteRun(ini, sta, f, env, req) ==
    The({[r EXCEPT !.resp.shape = req.shape, !.resp.meta = MessageOf(req)]
           : r \in {RunOutcome(ini, sta, f, env, req)}})

-----------------------------------------------------------------------------
(* The state machine *)

NoCall == Response("none", 0, "none", NoStreams, Snapshot(FALSE, FALSE, NoFile))

\* lines 225-227, with the image's file at the binary path
Init ==
    /\ rejectReinit \in BOOLEAN
    /\ initialized = FALSE
    /\ started = FALSE
    /\ file \in FileStates
    /\ environ = InheritedEnv
    /\ pending = 0
    /\ last = NoCall

\* POST /init
DoInit ==
    \E req \in InitRequests :
        \E r \in {RouteInit(rejectReinit, initialized, started, file, req)} :
            /\ initialized' = r.initialized
            /\ started' = r.started
            /\ file' = r.file
            /\ last' = r.resp
            /\ UNCHANGED <<rejectReinit, environ, pending>>

\* The server runs each request in a greenlet; init() tests the reinit guard
\* and then reads the request body, where the greenlet can be suspended while
\* other requests run.  InitEnter and InitResume are the two parts of such a
\* call; DoInit above is a call that is not suspended.

\* POST /init up to the read of the body: refused at the guard, or through it
InitEnter ==
    IF ReinitRefused(rejectReinit, initialized)
    THEN \E req \in InitRequests :
             /\ last' = RouteInit(rejectReinit, initialized, started, file, req).resp
             /\ UNCHANGED <<rejectReinit, initialized, started, file, environ, pending>>
    ELSE /\ pending < MaxPending
         /\ pending' = pending + 1
         /\ UNCHANGED <<rejectReinit, initialized, started, file, environ, last>>

\* POST /init from the read of the body to the response
InitResume ==
    /\ pending > 0
    /\ \E req \in InitRequests :
           \E r \in {RouteInitResumed(initialized, started, file, req)} :
               /\ initialized' = r.initialized
               /\ started' = r.started
               /\ file' = r.file
               /\ last' = [r.resp EXCEPT !.resumed = TRUE]
               /\ pending' = pending - 1
               /\ UNCHANGED <<rejectReinit, environ>>

\* POST /onstart
DoStart ==
    \E r \in {RouteStart(initialized, started, file)} :
        /\ started' = r.started
        /\ last' = r.resp
        /\ UNCHANGED <<rejectReinit, initialized, file, environ, pending>>

\* POST /onpause
DoPause ==
    /\ last' = RouteNotify("pause", "pause", "onpause", initialized, started, file)
    /\ UNCHANGED <<rejectReinit, initialized, started, file, environ, pending>>

\* POST /onfinish
DoFinish ==
    /\ last' = RouteNotify("finish", "stop", "onfinish", initialized, started, file)
    /\ UNCHANGED <<rejectReinit, initialized, started, file, environ, pending>>

\* POST /run with one of the given requests
DoRun(reqs) ==
    \E req \in reqs :
        \E r \in {RouteRun(initialized, started, file, environ, req)} :
            /\ environ' = r.environ
            /\ last' = r.resp
            /\ UNCHANGED <<rejectReinit, initialized, started, file, pending>>

DoRunFew == DoRun(WellFormedRuns(FewChildOutputs) \cup MalformedRuns)

Next ==
    DoInit \/ InitEnter \/ InitResume \/ DoStart \/ DoPause \/ DoFinish \/ DoRunFew

Spec == Init /\ [][Next]_vars

\* The parse of the child's output: the image holds an executable stub at the
\* binary path, and /run is called with every modelled output
InitOutput ==
    /\ rejectReinit = TRUE
    /\ initialized = FALSE
    /\ started = FALSE
    /\ file = [exists |-> TRUE, exec |-> TRUE, content |-> "stub"]
    /\ environ = InheritedEnv
    /\ pending = 0
    /\ last = NoCall

DoRunOutput == DoRun(OutputRuns)

NextOutput == DoRunOutput

SpecOutput == InitOutput /\ [][NextOutput]_vars

\* The environment of the child: the image holds an executable stub at the
\* binary path, and /run is called with every set of keys in its body
InitEnv == InitOutput

DoRunEnv == DoRun(EnvRuns)

NextEnv == DoRunEnv

SpecEnv == InitEnv /\ [][NextEnv]_vars

\* Overlapping /init calls under the policy that forbids reinitialization
InitConc ==
    /\ rejectReinit = TRUE
    /\ initialized = FALSE
    /\ started = FALSE
    /\ file \in FileStates
    /\ environ = InheritedEnv
    /\ pending = 0
    /\ last = NoCall

NextConc == DoInit \/ InitEnter \/ InitResume \/ DoStart

SpecConc == InitConc /\ [][NextConc]_vars

-----------------------------------------------------------------------------
(* Properties.  last is the response of the latest call with what the call
   did; last.pre holds the flags and the file as the call found them. *)

\* the file a call found was there and executable
FoundRunnable == last.pre.file.exists /\ last.pre.file.exec

\* the call ended with the sentinel as the last line of stdout and of stderr
SentinelEmitted ==
    /\ last.out # <<>> /\ last.out[Len(last.out)] = LOG_SENTINEL
    /\ last.err # <<>> /\ last.err[Len(last.err)] = LOG_SENTINEL

\* the call wrote the sentinel to neither stream
NoSentinel ==
    /\ \A i \in 1..Len(last.out) : last.out[i] # LOG_SENTINEL
    /\ \A i \in 1..Len(last.err) : last.err[i] # LOG_SENTINEL

\* C1: with rejectReinit set and initialized already true, an /init call
\* that meets the guard (one that was not let through it earlier) is
\* refused with the 403 error whatever its body and payload, runs no step
\* (no materialization, hook or verification) and leaves initialized,
\* started and the file at the binary path as they were.
C1_ForbiddenReinitTouchesNothing ==
    (last.op = "init" /\ rejectReinit /\ last.pre.initialized /\ ~last.resumed)
        => /\ last.code = 403 /\ last.kind = "reinit"
           /\ last.steps = <<>> /\ last.mat = "none"
           /\ initialized = last.pre.initialized
           /\ started = last.pre.started
           /\ file = last.pre.file

\* C1 witness: a refused reinit that carried inline code other than the
\* file's content, sent after a start
C1_Witness ==
    /\ last.op = "init" /\ rejectReinit /\ last.pre.initialized
    /\ last.code = 403 /\ last.payload = "string" /\ last.pre.started
    /\ file.content = "c1"

\* C2: an /init call that returns success leaves initialized true and
\* started false, whatever the flags were before.
C2_SuccessfulInitResetsStarted ==
    (last.op = "init" /\ last.code = 200) => (initialized /\ ~started)

\* C2 witness: a successful reinit from Initialized+Started
C2_Witness ==
    /\ last.op = "init" /\ last.code = 200
    /\ last.pre.initialized /\ last.pre.started /\ ~started

\* C3 (as claimed): on an allowed attempt whose materialization failed, /init
\* does not return success.
C3_MaterializationFailureFailsInit ==
    (last.op = "init" /\ last.kind # "reinit" /\ last.mat \in {"failed", "raised"})
        => last.code # 200

\* C4: an /init call that returns failure leaves initialized and started as
\* they were.
C4_FailedInitKeepsFlags ==
    (last.op = "init" /\ last.code # 200)
        => (initialized = last.pre.initialized /\ started = last.pre.started)

\* C4 witness: a failed reinit (a hook failed after the materialization)
\* from Initialized+Started
C4_Witness ==
    /\ last.op = "init" /\ last.code = 502 /\ last.mat = "ok"
    /\ last.pre.initialized /\ last.pre.started /\ started /\ initialized

\* C5: /onstart called while started is true fails with the
\* start-already-triggered error and changes neither flag.
C5_SecondStartRefused ==
    (last.op = "start" /\ last.pre.started)
        => /\ last.code = 500 /\ last.kind = "started"
           /\ started = last.pre.started
           /\ initialized = last.pre.initialized

\* C5 witness: a second /onstart after a successful init
C5_Witness ==
    /\ last.op = "start" /\ last.pre.started /\ last.pre.initialized
    /\ last.kind = "started"

\* C6: a child is spawned only by a /run call that found the file at the
\* binary path present and executable; without it the call fails and spawns
\* nothing, and for a body that is a dictionary (or empty) the failure is the
\* 502 'failed to locate a binary' error; in every lifecycle state.
C6_NoBinaryNoSpawn ==
    (last.op = "run" /\ ~FoundRunnable)
        => /\ ~last.spawned /\ last.argv = "none" /\ last.code # 200
           /\ (last.shape \in {"ok", "empty"}
                 => (last.code = 502 /\ last.kind = "nobinary"))

\* C6 witness: /run refused for a file that is there but not executable,
\* after a start
C6_Witness ==
    /\ last.op = "run" /\ last.pre.file.exists /\ ~last.pre.file.exec
    /\ last.pre.started /\ last.kind = "nobinary"

\* C7 (as claimed): stdin-only invocation exactly when the serialized length
\* is >= 131071.
C7_StdinOnlyFromThreshold ==
    (last.op = "run" /\ last.argv # "none")
        => (last.argv = "stdin" <=> last.inputLen >= MAX_ARG_STRLEN)

\* C7 (amended): stdin-only invocation exactly when the serialized length is
\* > 131071; a length of 131071 or less is passed as argv and on stdin.
C7_StdinOnlyAboveThreshold ==
    (last.op = "run" /\ last.argv # "none")
        => /\ last.argv \in {"stdin", "dual"}
           /\ (last.argv = "stdin" <=> last.inputLen > MAX_ARG_STRLEN)

\* C7 witness: the threshold length itself invoked with argv and stdin
C7_Witness ==
    /\ last.op = "run" /\ last.spawned
    /\ last.inputLen = MAX_ARG_STRLEN /\ last.argv = "dual"

\* C8 (as claimed): every completion of /init and of /run ends with the
\* sentinel on stdout and stderr.
C8_SentinelOnEveryCompletion ==
    last.op \in {"init", "run"} => SentinelEmitted

\* the text after the last newline of a text: the line it leaves unfinished
RECURSIVE UnfinishedLine(_)
UnfinishedLine(text) ==
    IF text = <<>> \/ text[Len(text)] = NL THEN ""
    ELSE UnfinishedLine(SubSeq(text, 1, Len(text) - 1)) \o text[Len(text)]

\* C8 (amended): every completion of /run writes the sentinel as the last
\* line of stdout (what the runner wrote to stdout before it is empty or
\* ends in a newline), and as the end of stderr right after what the child
\* wrote to stderr: it is the last line of stderr when the child's stderr is
\* empty or ends in a newline, and otherwise the tail of the line the child
\* left unfinished.  Every /init that ends in an error response (403 refused,
\* 502 failed) ends with the sentinel as the last line of stdout and of
\* stderr; an /init that succeeds, or that aborts with 404 on a body that is
\* no dictionary, writes no sentinel.
C8_SentinelOnRunAndFailedInit ==
    /\ last.op = "run"
         => /\ last.out # <<>> /\ last.out[Len(last.out)] = LOG_SENTINEL
            /\ last.logs = <<>> \/ last.logs[Len(last.logs)] = NL
            /\ last.err # <<>>
            /\ last.err[Len(last.err)]
                  = UnfinishedLine(last.childErr) \o LOG_SENTINEL
            /\ SentinelEmitted
                  <=> (last.childErr = <<>>
                         \/ last.childErr[Len(last.childErr)] = NL)
    /\ (last.op = "init" /\ last.code \in {403, 502}) => SentinelEmitted
    /\ (last.op = "init" /\ last.code \in {200, 404}) => NoSentinel
    /\ last.op = "init" => last.code \in {200, 403, 404, 502}

\* C8 witness: a /run whose child left a line on stderr unfinished; the
\* sentinel ends that line
C8_Witness ==
    /\ last.op = "run" /\ last.code = 200 /\ last.childErr = <<"a">>
    /\ last.err = <<"a" \o LOG_SENTINEL>>
    /\ last.out[Len(last.out)] = LOG_SENTINEL

\* C9 (as claimed): /onpause and /onfinish return success in every state.
C9_NotifyAlwaysAccepted ==
    last.op \in {"pause", "finish"} => last.code = 200

\* C10: when the child's stdout is N log lines (N >= 0) followed by one line
\* holding a JSON object, with or without a newline after that line, /run
\* returns 200 with that object and forwards exactly the N log lines, in
\* order, to stdout.
C10_LogsThenObject ==
    \A t \in AllLogTexts, obj \in JsonObjects, nl \in {<<>>, <<NL>>} :
        \A r \in Renderings(obj) :
            (last.op = "run" /\ last.spawned /\ last.childOut = t \o r \o nl)
                => /\ last.code = 200 /\ last.kind = "result"
                   /\ last.result = obj
                   /\ last.logs = t

\* C10 witness: two log lines, a JSON object itself and an empty one, then an
\* object as json.dumps writes it and no newline after it
C10_Witness ==
    /\ last.op = "run" /\ last.code = 200
    /\ last.childOut =
           <<"{", "}", " ", NL, NL,
             "{", QUOTE, "a", QUOTE, ":", " ", "1", "}">>
    /\ last.logs = <<"{", "}", " ", NL, NL>>
    /\ last.result = <<"{", QUOTE, "a", QUOTE, ":", "1", "}">>

\* the modelled lines that hold a JSON object: the renderings of the objects,
\* and the log line that is an object followed by a space
ObjectLines ==
    (UNION {Renderings(obj) : obj \in JsonObjects}) \cup {<<"{", "}", " ">>}

\* C11: when the candidate line of the child's stdout (the text after the
\* last newline that is not the final character, stripped) is malformed JSON
\* or JSON that is no object, /run fails with the 502 error whose error string
\* is that line; /run returns 200 only for a candidate line holding an object.
C11_BadResultLineIsTheError ==
    /\ \A t \in AllLogTexts, f \in OtherFinalLines, nl \in {<<>>, <<NL>>} :
           (/\ last.op = "run" /\ last.spawned
            /\ last.childOut = t \o f \o nl
            /\ (f # <<>> \/ nl # <<>> \/ t = <<>>))
               => /\ last.code = 502 /\ last.kind = "badresult"
                  /\ last.error = f
                  /\ last.result = <<>>
    /\ (last.op = "run" /\ last.code = 200)
           => \E t \in AllLogTexts, r \in ObjectLines, nl \in {<<>>, <<NL>>} :
                  last.childOut = t \o r \o nl

\* C11 witness: a log line, then a JSON number as the final line
C11_Witness ==
    /\ last.op = "run" /\ last.code = 502
    /\ last.childOut = <<"{", "}", " ", NL, "1", "1", NL>>
    /\ last.error = <<"1", "1">>

\* C12: both policy violations, an /init refused by the reinit guard and an
\* /onstart refused because the proxy is already started, are answered with a
\* client-class status (4xx) and leave the flags and the file as they were.
C12_PolicyViolationsAreClientErrors ==
    (last.kind \in {"reinit", "started"})
        => /\ last.code \in 400..499
           /\ initialized = last.pre.initialized
           /\ started = last.pre.started
           /\ file = last.pre.file

\* the environment the claim promises for the latest /run: the inherited
\* names and one prefixed, upper-cased name per key of that body but 'value'
OwnEnv == InheritedEnv \cup {EnvName(k) : k \in last.meta \ {ValueKey}}

\* C13: the environment handed to the child of a /run call is the inherited
\* environment plus one entry per metadata key of that request; no key of an
\* earlier request is in it.
C13_EnvHoldsOnlyOwnMetadata ==
    (last.op = "run" /\ last.spawned) => last.env = OwnEnv

\* C14: every /init and every /run call ends in a typed result, success, a
\* client-class error or a server-class error made by the route itself;
\* no exception leaves the view, whatever fails on the way.
C14_InitAndRunAlwaysTyped ==
    (last.op \in {"init", "run"})
        => \/ last.code = 200 /\ last.kind \in {"ok", "result"}
           \/ last.code \in {403, 404} /\ last.kind \in {"reinit", "abort", "notdict"}
           \/ /\ last.code \in {500, 502}
              /\ last.kind \in {"exception", "nobinary", "internal", "badresult"}

\* C14 witness: the child ran and runner.run raised; the route answered with
\* its own internal-error response
C14_Witness ==
    /\ last.op = "run" /\ last.spawned /\ last.childOut = <<>>
    /\ last.shape = "ok" /\ FoundRunnable
    /\ last.code = 500 /\ last.kind = "internal"
    /\ SentinelEmitted

\* C15: ActionRunner.init returns True (the route answers 200) exactly when
\* the file at the binary path exists and is executable as it returns,
\* whatever the payload and whatever the hooks did.
C15_InitStatusIsVerify ==
    (last.op = "init" /\ last.kind \in {"ok", "nobinary"})
        => (last.code = 200 <=> (file.exists /\ file.exec))

\* C16: the first /onstart after a successful /init answers 200 and sets
\* started; no /onstart sets started while it reports a failure.
C16_FirstStartAccepted ==
    /\ (last.op = "start" /\ last.pre.initialized /\ ~last.pre.started)
           => (last.code = 200 /\ started)
    /\ (last.op = "start" /\ last.code # 200) => started = last.pre.started

\* the position of a step in the order of ActionRunner.init
StepOrder == [materialize |-> 1, epilogue |-> 2, build |-> 3, verify |-> 4]

\* the latest call ran the step
Ran(step) == \E i \in 1..Len(last.steps) : last.steps[i] = step

\* the outcome of a hook that makes init fail
HookFailed(h) == h \in {"false", "raise"}

\* C17: an /init that passed the guard runs its steps in the order
\* materialize, epilogue, build, verify; the hooks run only after a successful
\* materialization, build only after an epilogue that did not fail, and when
\* a hook returns False or raises, verify is not run and the call fails.
C17_InitStepsInOrder ==
    (last.op = "init")
        => /\ \A i, j \in 1..Len(last.steps) :
                  i < j => StepOrder[last.steps[i]] < StepOrder[last.steps[j]]
           /\ (Ran("epilogue") \/ Ran("build"))
                  => (Ran("materialize") /\ last.mat = "ok")
           /\ Ran("build") => (Ran("epilogue") /\ ~HookFailed(last.epi))
           /\ (\/ Ran("epilogue") /\ HookFailed(last.epi)
               \/ Ran("build") /\ HookFailed(last.bld))
                  => /\ ~Ran("verify")
                     /\ last.code = 502
                     /\ initialized = last.pre.initialized

\* C17 witness: the build hook returned False after materialization and the
\* epilogue; verify was not run
C17_Witness ==
    /\ last.op = "init" /\ last.bld = "false"
    /\ last.steps = <<"materialize", "epilogue", "build">>
    /\ last.code = 502 /\ ~initialized
    /\ file.exists /\ file.exec

\* C18 as stated: while initialized is false no /run succeeds, and a
\* well-formed /run is answered with the 'no binary' error.
C18_NoRunBeforeInit ==
    (last.op = "run" /\ ~last.pre.initialized)
        => /\ last.code # 200
           /\ (last.shape \in {"ok", "empty"} => last.kind = "nobinary")

\* C18 amended: while initialized is false a well-formed /run is answered
\* with the 'no binary' error exactly when no executable file is at the
\* binary path; with an executable file there (the image's, or one a failed
\* /init left) the child is run, and only then can the call succeed.
C18_RunBeforeInitFollowsTheFile ==
    (last.op = "run" /\ ~last.pre.initialized /\ last.shape \in {"ok", "empty"})
        => /\ (last.kind = "nobinary") <=> ~FoundRunnable
           /\ (last.code = 200) => (FoundRunnable /\ last.spawned)

\* C18 witness: a /run that succeeded with initialized false
C18_Witness ==
    /\ last.op = "run" /\ ~last.pre.initialized /\ ~initialized
    /\ last.code = 200 /\ last.spawned
    /\ last.result = <<"{", "}">>

\* C19: started is true only when initialized is true.
C19_StartedImpliesInitialized == started => initialized

\* C20 as stated: under the forbid policy, once initialized is true no /init
\* call succeeds or materializes a payload, calls that overlap included.
C20_AtMostOneInitSucceeds ==
    [][(rejectReinit /\ initialized /\ last'.op = "init")
          => (last'.code # 200 /\ last'.mat = "none")]_vars

\* C20 amended: under the forbid policy, once initialized is true and no
\* /init call is past the guard, no /init call gets through the guard any
\* more: each is refused with 403, succeeds in nothing, materializes nothing
\* and leaves initialized and the file as they are.  (A call that passed the
\* guard before initialized was set still runs to its end.)
C20_NoInitOnceInitializedAndQuiet ==
    [][(rejectReinit /\ initialized /\ pending = 0)
          => /\ pending' = 0
             /\ initialized'
             /\ file' = file
             /\ (last'.op = "init"
                    => (last'.code = 403 /\ last'.mat = "none"))]_vars

\* C20 witness: a call made once initialized is true and no call is in
\* flight is refused
C20_Witness ==
    /\ rejectReinit /\ initialized /\ pending = 0
    /\ last.op = "init" /\ last.code = 403 /\ last.kind = "reinit"
    /\ last.pre.initialized

=============================================================================
